---- MODULE Spec2Model ----
(***************************************************************************)
(* Model of training_history.py: a JSON-lines run-history log with load,   *)
(* audit, repair, CSV export and an auto-export setting.                   *)
(*                                                                         *)
(* File contents are sequences of characters.  A "character" of the model  *)
(* is either one of JSON's structural characters  { } [ ] : , "  , a       *)
(* space, a newline, or an atom: a run of letters or digits that the code  *)
(* never looks inside (a key name, a timestamp, a number, the literal      *)
(* null).  json.dumps and json.loads are modelled by a printer and a       *)
(* recursive-descent parser over these characters.                         *)
(***************************************************************************)
EXTENDS Integers, Sequences, FiniteSets, TLC

(***************************************************************************)
(* Bounds of the model.                                                    *)
(***************************************************************************)
MaxRuns == 3
MaxLines == 3
MaxInitLines == 2
MaxExports == 1
MaxInterrupts == 1
MaxRepairs == 2

(***************************************************************************)
(* Characters.                                                             *)
(***************************************************************************)
LBrace == "{"
RBrace == "}"
LBrack == "["
RBrack == "]"
Colon == ":"
Comma == ","
Quote == "\""
Space == " "
Newline == "\n"
NullLit == "null"
Digits == {"1", "2"}
Whitespace == {Space, Newline}

(***************************************************************************)
(* JSON values as Python holds them after json.loads: None, a number, a    *)
(* str, a list, a dict (insertion-ordered, unique keys).  PyObj is a value *)
(* json.dumps cannot serialize; repr is what str(o) gives for it.          *)
(***************************************************************************)
JNull == [k |-> "null"]
JNum(a) == [k |-> "num", a |-> a]
JStr(cs) == [k |-> "str", s |-> cs]
JArr(es) == [k |-> "arr", e |-> es]
JObj(ps) == [k |-> "obj", p |-> ps]
PyObj(repr) == [k |-> "py", r |-> repr]
Item(key, val) == [key |-> <<key>>, val |-> val]

(***************************************************************************)
(* json.dumps(o, ensure_ascii=False): ", " between items, ": " after keys. *)
(***************************************************************************)
RECURSIVE Dumps(_), DumpsElems(_, _), DumpsItems(_, _)
DumpsElems(es, i) ==
    IF i > Len(es) THEN <<>>
    ELSE (IF i > 1 THEN <<Comma, Space>> ELSE <<>>)
         \o Dumps(es[i]) \o DumpsElems(es, i + 1)
DumpsItems(ps, i) ==
    IF i > Len(ps) THEN <<>>
    ELSE (IF i > 1 THEN <<Comma, Space>> ELSE <<>>)
         \o <<Quote>> \o ps[i].key \o <<Quote, Colon, Space>>
         \o Dumps(ps[i].val) \o DumpsItems(ps, i + 1)
Dumps(o) ==
    CASE o.k = "null" -> <<NullLit>>
      [] o.k = "num" -> <<o.a>>
      [] o.k = "str" -> <<Quote>> \o o.s \o <<Quote>>
      [] o.k = "arr" -> <<LBrack>> \o DumpsElems(o.e, 1) \o <<RBrack>>
      [] o.k = "obj" -> <<LBrace>> \o DumpsItems(o.p, 1) \o <<RBrace>>

(***************************************************************************)
(* Whether json.dumps(o) succeeds (it raises TypeError on a PyObj at any   *)
(* depth).                                                                 *)
(***************************************************************************)
RECURSIVE Serializable(_)
Serializable(o) ==
    CASE o.k = "py" -> FALSE
      [] o.k = "arr" -> \A i \in 1..Len(o.e) : Serializable(o.e[i])
      [] o.k = "obj" -> \A i \in 1..Len(o.p) : Serializable(o.p[i].val)
      [] OTHER -> TRUE

(***************************************************************************)
(* json.loads(s).  Results are [ok, v, n]: whether a value was parsed, the *)
(* value, and the index after it.                                          *)
(***************************************************************************)
Fail(i) == [ok |-> FALSE, v |-> JNull, n |-> i]
Ok(v, n) == [ok |-> TRUE, v |-> v, n |-> n]

Min(S) == CHOOSE x \in S : \A y \in S : x <= y

\* str.find(c, i): the index of the first c at or after i, 0 if there is none
Find(s, c, i) ==
    LET at == {j \in i..Len(s) : s[j] = c}
    IN  IF at = {} THEN 0 ELSE Min(at)

\* the index of the first character at or after i that is no whitespace
RECURSIVE SkipWs(_, _)
SkipWs(s, i) ==
    IF i <= Len(s) /\ s[i] \in Whitespace THEN SkipWs(s, i + 1) ELSE i

\* index of the first Quote at or after i, 0 if there is none
RECURSIVE ScanString(_, _)
ScanString(s, i) ==
    IF i > Len(s) THEN 0
    ELSE IF s[i] = Quote THEN i
    ELSE ScanString(s, i + 1)

ParseString(s, i) ==
    LET j == ScanString(s, i + 1)
    IN  IF j = 0 THEN Fail(i) ELSE Ok(JStr(SubSeq(s, i + 1, j - 1)), j + 1)

\* dict[key] = val: a repeated key keeps its place and takes the new value
DictSet(ps, key, val) ==
    IF \E i \in 1..Len(ps) : ps[i].key = key
    THEN [i \in 1..Len(ps) |->
             IF ps[i].key = key THEN [key |-> key, val |-> val] ELSE ps[i]]
    ELSE Append(ps, [key |-> key, val |-> val])

RECURSIVE ParseValue(_, _), ParseMembers(_, _, _), ParseElements(_, _, _)
ParseValue(s, i) ==
    IF i > Len(s) THEN Fail(i)
    ELSE CASE s[i] = LBrace ->
                LET j == SkipWs(s, i + 1)
                IN  IF j <= Len(s) /\ s[j] = RBrace
                    THEN Ok(JObj(<<>>), j + 1)
                    ELSE ParseMembers(s, j, <<>>)
           [] s[i] = LBrack ->
                LET j == SkipWs(s, i + 1)
                IN  IF j <= Len(s) /\ s[j] = RBrack
                    THEN Ok(JArr(<<>>), j + 1)
                    ELSE ParseElements(s, j, <<>>)
           [] s[i] = Quote -> ParseString(s, i)
           [] s[i] = NullLit -> Ok(JNull, i + 1)
           [] s[i] \in Digits -> Ok(JNum(s[i]), i + 1)
           [] OTHER -> Fail(i)
ParseMembers(s, i, acc) ==
    IF i > Len(s) \/ s[i] # Quote THEN Fail(i)
    ELSE LET key == ParseString(s, i)
             c == SkipWs(s, key.n)
         IN  IF ~key.ok \/ c > Len(s) \/ s[c] # Colon THEN Fail(i)
             ELSE LET val == ParseValue(s, SkipWs(s, c + 1))
                      e == SkipWs(s, val.n)
                      acc2 == DictSet(acc, key.v.s, val.v)
                  IN  IF ~val.ok \/ e > Len(s) THEN Fail(i)
                      ELSE IF s[e] = RBrace THEN Ok(JObj(acc2), e + 1)
                      ELSE IF s[e] = Comma
                           THEN ParseMembers(s, SkipWs(s, e + 1), acc2)
                      ELSE Fail(i)
ParseElements(s, i, acc) ==
    LET val == ParseValue(s, i)
        e == SkipWs(s, val.n)
    IN  IF ~val.ok \/ e > Len(s) THEN Fail(i)
        ELSE IF s[e] = RBrack THEN Ok(JArr(Append(acc, val.v)), e + 1)
        ELSE IF s[e] = Comma
             THEN ParseElements(s, SkipWs(s, e + 1), Append(acc, val.v))
        ELSE Fail(i)

\* json.loads raises on text after the value ("Extra data")
Loads(s) ==
    LET r == ParseValue(s, SkipWs(s, 1))
    IN  IF r.ok /\ SkipWs(s, r.n) > Len(s) THEN r ELSE Fail(1)

(***************************************************************************)
(* Text-file reading: "for line in f" yields each line with its newline    *)
(* (the last one without, when the file does not end in a newline), and    *)
(* str.strip() drops the whitespace at both ends.                          *)
(***************************************************************************)
RECURSIVE LinesFrom(_, _)
LinesFrom(data, i) ==
    IF i > Len(data) THEN <<>>
    ELSE LET j == Find(data, Newline, i)
         IN  IF j = 0 THEN <<SubSeq(data, i, Len(data))>>
             ELSE <<SubSeq(data, i, j)>> \o LinesFrom(data, j + 1)
Lines(data) == LinesFrom(data, 1)

RECURSIVE LastNonWs(_, _)
LastNonWs(s, i) ==
    IF i >= 1 /\ s[i] \in Whitespace THEN LastNonWs(s, i - 1) ELSE i
Strip(s) == SubSeq(s, SkipWs(s, 1), LastNonWs(s, Len(s)))

From(s, i) == SubSeq(s, i, Len(s))

(***************************************************************************)
(* Files: [exists, data].                                                  *)
(***************************************************************************)
NoFile == [exists |-> FALSE, data |-> <<>>]
FileOf(data) == [exists |-> TRUE, data |-> data]

(***************************************************************************)
(* load_history: the records of the lines that parse, in file order.       *)
(***************************************************************************)
LoadLine(s) == Loads(s)

\* a loader that stops at the first line that does not parse
RECURSIVE LoadLinesBreak(_, _)
LoadLinesBreak(ls, i) ==
    IF i > Len(ls) THEN <<>>
    ELSE LET s == Strip(ls[i])
         IN  IF s = <<>> THEN LoadLinesBreak(ls, i + 1)
             ELSE LET r == LoadLine(s)
                  IN  IF r.ok THEN <<r.v>> \o LoadLinesBreak(ls, i + 1)
                      ELSE <<>>
RECURSIVE LoadLines(_, _)
LoadLines(ls, i) ==
    IF i > Len(ls) THEN <<>>
    ELSE LET s == Strip(ls[i])
         IN  IF s = <<>> THEN LoadLines(ls, i + 1)
             ELSE LET r == LoadLine(s)
                  IN  IF r.ok THEN <<r.v>> \o LoadLines(ls, i + 1)
                      ELSE LoadLines(ls, i + 1)
load_history(f) == IF ~f.exists THEN <<>> ELSE LoadLines(Lines(f.data), 1)

(***************************************************************************)
(* audit_history_file: a line is valid when it parses, or parses from its  *)
(* first "{"; blank lines count in total_lines only.                       *)
(***************************************************************************)
\* an audit that also accepts a line that parses from a later "{"
AuditValidLater(s) ==
    \/ Loads(s).ok
    \/ \E j \in 1..Len(s) : s[j] = LBrace /\ Loads(From(s, j)).ok
AuditValid(s) ==
    \/ Loads(s).ok
    \/ LET idx == Find(s, LBrace, 1)
       IN  idx # 0 /\ Loads(From(s, idx)).ok

audit_history_file(f) ==
    IF ~f.exists
    THEN [total_lines |-> 0, valid_json |-> 0, malformed_lines |-> 0]
    ELSE LET ls == Lines(f.data)
             nonblank == {i \in 1..Len(ls) : Strip(ls[i]) # <<>>}
             valid == {i \in nonblank : AuditValid(Strip(ls[i]))}
         IN  [total_lines |-> Len(ls),
              valid_json |-> Cardinality(valid),
              malformed_lines |-> Cardinality(nonblank \ valid)]

(***************************************************************************)
(* repair_history's scan: per line, the direct parse, else the parse from  *)
(* the first "{", else the parse from the earliest later "{" that parses.  *)
(***************************************************************************)
\* the loop over range(idx + 1, len(s)): the first "{" from which s parses
LaterBrace(s, i) ==
    LET at == {j \in i..Len(s) : s[j] = LBrace /\ Loads(From(s, j)).ok}
    IN  IF at = {} THEN Fail(i) ELSE Loads(From(s, Min(at)))

SalvageFirstBraceOnly(s) ==
    LET direct == Loads(s)
        idx == Find(s, LBrace, 1)
    IN  IF direct.ok THEN direct
        ELSE IF idx = 0 THEN Fail(1)
        ELSE Loads(From(s, idx))
Salvage(s) ==
    LET direct == Loads(s)
        idx == Find(s, LBrace, 1)
    IN  IF direct.ok THEN direct
        ELSE IF idx = 0 THEN Fail(1)
        ELSE IF Loads(From(s, idx)).ok THEN Loads(From(s, idx))
        ELSE LaterBrace(s, idx + 1)

RECURSIVE RepairScan(_, _)
RepairScan(ls, i) ==
    IF i > Len(ls) THEN <<>>
    ELSE LET s == Strip(ls[i])
         IN  IF s = <<>> THEN RepairScan(ls, i + 1)
             ELSE LET r == Salvage(s)
                  IN  IF r.ok THEN <<r.v>> \o RepairScan(ls, i + 1)
                      ELSE RepairScan(ls, i + 1)

\* a writer that puts no newline after a record
RECURSIVE WriteRecordsJoined(_, _)
WriteRecordsJoined(rs, i) ==
    IF i > Len(rs) THEN <<>>
    ELSE Dumps(rs[i]) \o WriteRecordsJoined(rs, i + 1)
RECURSIVE WriteRecords(_, _)
WriteRecords(rs, i) ==
    IF i > Len(rs) THEN <<>>
    ELSE Dumps(rs[i]) \o <<Newline>> \o WriteRecords(rs, i + 1)

(***************************************************************************)
(* dict.get(key): the value, None when the key is absent.  On a record     *)
(* that is no dict the call raises AttributeError (IsDict guards it).      *)
(***************************************************************************)
IsDict(r) == r.k = "obj"
Get(r, key) ==
    IF \E i \in 1..Len(r.p) : r.p[i].key = <<key>>
    THEN r.p[CHOOSE i \in 1..Len(r.p) : r.p[i].key = <<key>>].val
    ELSE JNull
\* Python truthiness of a loaded value ("x or {}")
Falsy(v) ==
    \/ v.k = "null"
    \/ v.k = "str" /\ v.s = <<>>
    \/ v.k = "arr" /\ v.e = <<>>
    \/ v.k = "obj" /\ v.p = <<>>
OrEmptyDict(v) == IF Falsy(v) THEN JObj(<<>>) ELSE v

(***************************************************************************)
(* append_run's record and its normalisation.                              *)
(***************************************************************************)
\* a normalisation that leaves every value as it is
SafeIdentity(o) == o
safe(o) == IF Serializable(o) THEN o ELSE JStr(<<o.r>>)
RECURSIVE safe_map(_)
safe_map(obj) ==
    CASE obj.k = "obj" ->
            JObj([i \in 1..Len(obj.p) |->
                     [key |-> obj.p[i].key, val |-> safe_map(obj.p[i].val)]])
      [] obj.k = "arr" -> JArr([i \in 1..Len(obj.e) |-> safe_map(obj.e[i])])
      [] OTHER -> safe(obj)

MakeRecord(ts, run) ==
    JObj(<<Item("timestamp", JStr(<<ts>>)),
           Item("params", run.params),
           Item("metrics", run.metrics),
           Item("history", run.history),
           Item("model_paths", run.model_paths)>>)

RecordLineNoNewline(ts, run) == Dumps(safe_map(MakeRecord(ts, run)))
RecordLine(ts, run) == Dumps(safe_map(MakeRecord(ts, run))) \o <<Newline>>

(***************************************************************************)
(* export_to_csv / export_to_sqlite: one row per record.  The header row   *)
(* is fixed and left out of the model; data holds the data rows.  A record *)
(* that is no dict raises at r.get, after the rows before it were written. *)
(***************************************************************************)
Row(r) ==
    <<Get(r, "timestamp"), Dumps(Get(r, "params")), Dumps(Get(r, "metrics")),
      Dumps(Get(r, "model_paths")), Dumps(Get(r, "history"))>>

RECURSIVE FirstNonDict(_, _)
FirstNonDict(rs, i) ==
    IF i > Len(rs) THEN 0
    ELSE IF ~IsDict(rs[i]) THEN i
    ELSE FirstNonDict(rs, i + 1)

\* an export that writes the newest record only
ExportLastRow(records, old) ==
    IF records = <<>> THEN [file |-> old, raised |-> FALSE]
    ELSE [file |-> FileOf(<<Row(records[Len(records)])>>), raised |-> FALSE]
\* [file, raised]: the target file after the call, and whether it raised
ExportRows(records, old) ==
    LET bad == FirstNonDict(records, 1)
        n == IF bad = 0 THEN Len(records) ELSE bad - 1
    IN  IF records = <<>> THEN [file |-> old, raised |-> FALSE]
        ELSE [file |-> FileOf([i \in 1..n |-> Row(records[i])]),
              raised |-> bad # 0]

(***************************************************************************)
(* Inputs.                                                                 *)
(***************************************************************************)
Run(params, metrics, history, model_paths) ==
    [params |-> params, metrics |-> metrics, history |-> history,
     model_paths |-> model_paths]
PlainRun ==
    Run(JObj(<<Item("lr", JNum("1"))>>), JObj(<<Item("mae", JNum("2"))>>),
        JNull, JNull)
NestedRun ==
    Run(JObj(<<Item("lr", JNum("2")),
               Item("opt", JObj(<<Item("name", JStr(<<"adam">>))>>))>>),
        JObj(<<>>),
        JObj(<<Item("loss", JArr(<<JNum("2"), JNum("1")>>))>>),
        JObj(<<Item("final", JStr(<<"m">>))>>))
\* a run with a value json.dumps cannot serialize (a numpy float, say)
OpaqueRun ==
    Run(JObj(<<Item("lr", PyObj("np1"))>>), JObj(<<Item("mae", JNum("1"))>>),
        JNull, JNull)
Runs == {PlainRun, NestedRun, OpaqueRun}
\* unserializable values inside a list and inside a mapping inside the list
DeepOpaqueRun ==
    Run(JObj(<<Item("layers", JArr(<<PyObj("np2"),
                                     JObj(<<Item("act", PyObj("fn"))>>),
                                     JNum("1")>>))>>),
        JObj(<<>>), JNull, JNull)
OpaqueRuns == Runs \cup {DeepOpaqueRun}
DefaultCsvPath == "training_history.csv"
CsvPaths == {DefaultCsvPath, "runs.csv"}
NoPath == ""
Disabled == 0

\* a reader's file handle: the file it opened, and the operation reading it
Closed == [exists |-> FALSE, data |-> <<>>, by |-> ""]
Handle(f, by) == [exists |-> TRUE, data |-> f.data, by |-> by]

(***************************************************************************)
(* State.  log, bak, csv, db are the files; AUTO_EXPORT_N (Disabled for    *)
(* None) and AUTO_EXPORT_CSV_PATH are the module globals.  The rest        *)
(* records the calls made: the last operation, whether it raised, what it  *)
(* returned (for enable: its arguments), the timestamp and run of every    *)
(* append_run that completed, the number of append_run calls made and made *)
(* since the last successful enable, whether the last append_run called    *)
(* export_to_csv, the fault injected into it, the numbers of interrupted   *)
(* appends, repairs and direct exports, the kind and timestamp of each     *)
(* line the log held at start-up, and the backup argument and copy outcome *)
(* of the last repair_history, and the arguments of the last               *)
(* find_runs_by_param.                                                     *)
(*                                                                         *)
(* For a repair_history that runs beside another process: pc is its        *)
(* position, tmp its temporary file, valid_records what its scan           *)
(* collected; reader is the file a concurrent load_history holds open.     *)
(***************************************************************************)
VARIABLES log, bak, csv, db, AUTO_EXPORT_N, AUTO_EXPORT_CSV_PATH,
          op, raised, result, appended, calls, sinceEnable, exportCalled,
          fault, interrupts, repairs, exports, onDisk, repairArgs,
          pc, tmp, valid_records, reader, query

files == <<log, bak, csv, db>>
setting == <<AUTO_EXPORT_N, AUTO_EXPORT_CSV_PATH>>
stepping == <<pc, tmp, valid_records, reader>>
repairing == <<repairArgs, stepping>>
counters == <<appended, calls, sinceEnable, exportCalled, fault, interrupts,
              repairs, exports, onDisk, repairing, query>>
vars == <<log, bak, csv, db, AUTO_EXPORT_N, AUTO_EXPORT_CSV_PATH,
          op, raised, result, appended, calls, sinceEnable, exportCalled,
          fault, interrupts, repairs, exports, onDisk, repairArgs,
          pc, tmp, valid_records, reader, query>>

Clock(n) == "T" \o ToString(n)

InitRest ==
    /\ bak = NoFile
    /\ csv = [p \in CsvPaths |-> NoFile]
    /\ db = NoFile
    /\ AUTO_EXPORT_N = Disabled
    /\ AUTO_EXPORT_CSV_PATH = DefaultCsvPath
    /\ op = "init"
    /\ raised = "none"
    /\ result = <<>>
    /\ appended = <<>>
    /\ calls = 0
    /\ sinceEnable = 0
    /\ exportCalled = FALSE
    /\ fault = "none"
    /\ interrupts = 0
    /\ repairs = 0
    /\ exports = 0
    /\ repairArgs = [backup |-> FALSE, copied |-> FALSE]
    /\ pc = "idle"
    /\ tmp = NoFile
    /\ valid_records = <<>>
    /\ reader = Closed
    /\ query = <<>>

Init ==
    /\ log \in {NoFile, FileOf(<<>>)}
    /\ onDisk = <<>>
    /\ InitRest

(***************************************************************************)
(* append_run.  The auto-export step runs inside try/except Exception: a   *)
(* failing recount or export (fault) is swallowed.                         *)
(***************************************************************************)
Faults == {"none", "recount", "export_open", "export_write"}

\* open(HISTORY_PATH, "a") and f.write(line): the file is created if missing
OpenWrite(f, line) == FileOf(line)
OpenAppend(f, line) == FileOf(f.data \o line)

TriggerBeforeAppend(total, n) == (total - 1) % n = 0
Trigger(total, n) == total % n = 0

AutoExportPropagates(f) == IF f = "none" THEN "none" ELSE "OSError"
AutoExportRaised(f) == "none"

AppendRun(run, f) ==
    LET safe_record == safe_map(MakeRecord(Clock(calls + 1), run))
        \* json.dumps(safe_record) raises TypeError after the file was opened
        dumped == Serializable(safe_record)
        line == IF dumped THEN RecordLine(Clock(calls + 1), run) ELSE <<>>
        after == OpenAppend(log, line)
        enabled == dumped /\ AUTO_EXPORT_N > 0
        counted == enabled /\ f # "recount"
        total == Len(load_history(after))
        hit == counted /\ Trigger(total, AUTO_EXPORT_N)
        path == AUTO_EXPORT_CSV_PATH
        out == ExportRows(load_history(after), csv[path])
    IN  /\ calls < MaxRuns
        /\ Len(Lines(log.data)) < MaxLines
        /\ f # "none" => enabled
        /\ f \in {"export_open", "export_write"} => hit /\ total > 0
        /\ log' = after
        /\ csv' = IF ~hit \/ f = "export_open" THEN csv
                  ELSE IF f = "export_write"
                       THEN [csv EXCEPT ![path] = FileOf(<<>>)]
                  ELSE [csv EXCEPT ![path] = out.file]
        /\ exportCalled' = hit
        /\ fault' = f
        /\ op' = "append_run"
        /\ raised' = IF dumped THEN AutoExportRaised(f) ELSE "TypeError"
        /\ result' = <<>>
        /\ appended' = IF dumped
                       THEN Append(appended,
                                   [ts |-> Clock(calls + 1), run |-> run])
                       ELSE appended
        /\ calls' = calls + 1
        /\ sinceEnable' = sinceEnable + 1
        /\ UNCHANGED <<bak, db, setting, interrupts, repairs, exports, onDisk, query,
                       repairing>>

(***************************************************************************)
(* The read-side operations.                                               *)
(***************************************************************************)
LoadHistory ==
    /\ op' = "load_history"
    /\ raised' = "none"
    /\ result' = load_history(log)
    /\ UNCHANGED <<files, setting, counters>>

AuditHistoryFile ==
    /\ op' = "audit_history_file"
    /\ raised' = "none"
    /\ result' = audit_history_file(log)
    /\ UNCHANGED <<files, setting, counters>>

GetLastRun ==
    LET records == load_history(log)
    IN  /\ op' = "get_last_run"
        /\ raised' = "none"
        /\ result' = IF records = <<>> THEN JNull ELSE records[Len(records)]
        /\ UNCHANGED <<files, setting, counters>>

(***************************************************************************)
(* print_recent_runs(n): one summary per record of the tail.  r.get and    *)
(* the .items()/.get() calls on params, metrics and model_paths raise      *)
(* AttributeError on a value that is no dict.                              *)
(***************************************************************************)
LastN(rs, n) ==
    IF n >= Len(rs) \/ n = 0 THEN rs ELSE SubSeq(rs, Len(rs) - n + 1, Len(rs))
Or(a, b) == IF Falsy(a) THEN b ELSE a
SummaryOk(r) ==
    /\ IsDict(r)
    /\ IsDict(OrEmptyDict(Get(r, "params")))
    /\ IsDict(OrEmptyDict(Get(r, "metrics")))
    /\ IsDict(OrEmptyDict(Get(r, "model_paths")))
Summary(r) ==
    LET params == OrEmptyDict(Get(r, "params"))
        metrics == OrEmptyDict(Get(r, "metrics"))
        model_paths == OrEmptyDict(Get(r, "model_paths"))
    IN  [ts |-> Get(r, "timestamp"),
         params |-> SubSeq(params.p, 1, IF Len(params.p) < 3 THEN Len(params.p) ELSE 3),
         mae |-> Get(metrics, "mae"),
         rmse |-> Get(metrics, "rmse"),
         final |-> Or(Get(model_paths, "final"),
                      Or(Get(model_paths, "best"), JStr(<<"-">>)))]

RECURSIVE FirstBad(_, _)
FirstBad(rs, i) ==
    IF i > Len(rs) THEN 0
    ELSE IF ~SummaryOk(rs[i]) THEN i
    ELSE FirstBad(rs, i + 1)

PrintRecentRuns(n) ==
    LET to_show == LastN(load_history(log), n)
        bad == FirstBad(to_show, 1)
        shown == IF bad = 0 THEN Len(to_show) ELSE bad - 1
    IN  /\ op' = "print_recent_runs"
        /\ raised' = IF bad = 0 THEN "none" ELSE "AttributeError"
        /\ result' = [i \in 1..shown |-> Summary(to_show[i])]
        /\ UNCHANGED <<files, setting, counters>>

(***************************************************************************)
(* export_to_csv(csv_path) and export_to_sqlite(), called directly: a      *)
(* failure propagates.  export_to_sqlite commits at the end only, so a     *)
(* raise leaves the table's rows as they were.                             *)
(***************************************************************************)
ExportToCsv(path) ==
    LET out == ExportRows(load_history(log), csv[path])
    IN  /\ exports < MaxExports
        /\ exports' = exports + 1
        /\ op' = "export_to_csv"
        /\ csv' = [csv EXCEPT ![path] = out.file]
        /\ raised' = IF out.raised THEN "AttributeError" ELSE "none"
        /\ result' = <<>>
        /\ UNCHANGED <<log, bak, db, setting, appended, calls, sinceEnable,
                       exportCalled, fault, interrupts, repairs, onDisk, query,
                       repairing>>

ExportToSqlite ==
    LET out == ExportRows(load_history(log), db)
    IN  /\ exports < MaxExports
        /\ exports' = exports + 1
        /\ op' = "export_to_sqlite"
        /\ db' = IF out.raised THEN FileOf(db.data) ELSE out.file
        /\ raised' = IF out.raised THEN "AttributeError" ELSE "none"
        /\ result' = <<>>
        /\ UNCHANGED <<log, bak, csv, setting, appended, calls, sinceEnable,
                       exportCalled, fault, interrupts, repairs, onDisk, query,
                       repairing>>

(***************************************************************************)
(* find_runs_by_param(param_name, value).                                  *)
(***************************************************************************)
ParamsOf(r) == OrEmptyDict(Get(r, "params"))
Matches(r, param_name, value) == Get(ParamsOf(r), param_name) = value

RECURSIVE Filter(_, _, _, _)
Filter(rs, i, param_name, value) ==
    IF i > Len(rs) THEN <<>>
    ELSE (IF Matches(rs[i], param_name, value) THEN <<rs[i]>> ELSE <<>>)
         \o Filter(rs, i + 1, param_name, value)

ParamNames == {"lr", "opt"}
ParamValues == {JNum("1"), JNull}

FindRunsByParam(param_name, value) ==
    LET records == load_history(log)
        ok == \A i \in 1..Len(records) :
                  IsDict(records[i]) /\ IsDict(ParamsOf(records[i]))
    IN  /\ op' = "find_runs_by_param"
        /\ raised' = IF ok THEN "none" ELSE "AttributeError"
        /\ result' = IF ok THEN Filter(records, 1, param_name, value) ELSE <<>>
        /\ query' = <<param_name, value>>
        /\ UNCHANGED <<files, setting, appended, calls, sinceEnable,
                       exportCalled, fault, interrupts, repairs, exports,
                       onDisk, repairing>>

(***************************************************************************)
(* enable_auto_export_csv(n, csv_path) and disable_auto_export_csv().      *)
(* NoPath stands for csv_path=None (and for the empty string, which the    *)
(* code treats alike).                                                     *)
(***************************************************************************)
EnableArgs == (0 - 1)..2
PathArgs == {NoPath, "runs.csv"}

EnablePathBeforeCheck(n, csv_path, N, path) ==
    IF n <= 0
    THEN [raised |-> "ValueError", N |-> N,
          path |-> IF csv_path # NoPath THEN csv_path ELSE path]
    ELSE [raised |-> "none", N |-> n,
          path |-> IF csv_path # NoPath THEN csv_path ELSE path]
enable_auto_export_csv(n, csv_path, N, path) ==
    IF n <= 0
    THEN [raised |-> "ValueError", N |-> N, path |-> path]
    ELSE [raised |-> "none", N |-> n,
          path |-> IF csv_path # NoPath THEN csv_path ELSE path]

EnableAutoExportCsv(n, csv_path) ==
    LET out == enable_auto_export_csv(n, csv_path, AUTO_EXPORT_N,
                                      AUTO_EXPORT_CSV_PATH)
    IN  /\ op' = "enable_auto_export_csv"
        /\ raised' = out.raised
        /\ result' = <<n, csv_path>>
        /\ AUTO_EXPORT_N' = out.N
        /\ AUTO_EXPORT_CSV_PATH' = out.path
        /\ sinceEnable' = IF out.raised = "none" THEN 0 ELSE sinceEnable
        /\ UNCHANGED <<files, appended, calls, exportCalled, fault,
                       interrupts, repairs, exports, onDisk, query, repairing>>

\* a disable that also puts the target path back to its default
DisableResetsPath(N, path) == [N |-> Disabled, path |-> DefaultCsvPath]
disable_auto_export_csv(N, path) == [N |-> Disabled, path |-> path]

DisableAutoExportCsv ==
    LET out == disable_auto_export_csv(AUTO_EXPORT_N, AUTO_EXPORT_CSV_PATH)
    IN  /\ op' = "disable_auto_export_csv"
        /\ raised' = "none"
        /\ result' = <<>>
        /\ AUTO_EXPORT_N' = out.N
        /\ AUTO_EXPORT_CSV_PATH' = out.path
        /\ UNCHANGED <<files, counters>>

(***************************************************************************)
(* repair_history(backup).  copy_ok is whether shutil.copy2 succeeds; a    *)
(* failed copy is ignored.  The scan, the temporary file and os.replace    *)
(* are taken in one step here.                                             *)
(***************************************************************************)
repair_records(f) == RepairScan(Lines(f.data), 1)

\* a backup step that copies whether or not backup was asked for
CopyAlways(src, dst, backup, copy_ok) == IF copy_ok THEN src ELSE dst
\* "if backup: shutil.copy2(HISTORY_PATH, bak_path)", a failure ignored
Copy2(src, dst, backup, copy_ok) == IF backup /\ copy_ok THEN src ELSE dst

RepairHistory(backup, copy_ok) ==
    LET recovered == repair_records(log)
    IN  /\ repairs < MaxRepairs
        /\ repairs' = repairs + 1
        /\ op' = "repair_history"
        /\ raised' = "none"
        /\ result' = IF log.exists THEN Len(recovered) ELSE 0
        /\ log' = IF log.exists THEN FileOf(WriteRecords(recovered, 1))
                  ELSE log
        /\ bak' = IF log.exists THEN Copy2(log, bak, backup, copy_ok) ELSE bak
        /\ repairArgs' = [backup |-> backup, copied |-> backup /\ copy_ok]
        /\ UNCHANGED <<csv, db, setting, appended, calls, sinceEnable,
                       exportCalled, fault, interrupts, exports, onDisk, query,
                       stepping>>

(***************************************************************************)
(* repair_history beside another process, step by step: the exists check   *)
(* and the backup; the scan of the log and the creation of the temporary   *)
(* file; one write per recovered record; os.replace.  A write or the       *)
(* replace may raise (write_ok, replace_ok): the finally clause removes    *)
(* the temporary file and the exception reaches the caller.                *)
(***************************************************************************)
RepairBegin(backup, copy_ok) ==
    /\ pc = "idle"
    /\ repairs < MaxRepairs
    /\ repairs' = repairs + 1
    /\ IF log.exists
       THEN /\ bak' = Copy2(log, bak, backup, copy_ok)
            /\ pc' = "scan"
            /\ UNCHANGED <<op, raised, result>>
       ELSE /\ op' = "repair_history"
            /\ raised' = "none"
            /\ result' = 0
            /\ UNCHANGED <<bak, pc>>
    /\ repairArgs' = [backup |-> backup, copied |-> backup /\ copy_ok]
    /\ UNCHANGED <<log, csv, db, setting, appended, calls, sinceEnable,
                   exportCalled, fault, interrupts, exports, onDisk, query,
                   tmp, valid_records, reader>>

RepairRead ==
    /\ pc = "scan"
    /\ valid_records' = repair_records(log)
    /\ tmp' = FileOf(<<>>)
    /\ pc' = "write"
    /\ UNCHANGED <<files, setting, op, raised, result, appended, calls,
                   sinceEnable, exportCalled, fault, interrupts, repairs,
                   exports, onDisk, query, repairArgs, reader>>

\* the exception path of lines 195-205
RepairFails ==
    /\ tmp' = NoFile
    /\ pc' = "idle"
    /\ op' = "repair_history"
    /\ raised' = "OSError"
    /\ result' = <<>>
    /\ UNCHANGED <<files, setting, appended, calls, sinceEnable, exportCalled,
                   fault, interrupts, repairs, exports, onDisk, query, repairArgs,
                   valid_records, reader>>

RepairWrite(write_ok) ==
    LET done == Len(Lines(tmp.data))
    IN  /\ pc = "write"
        /\ done < Len(valid_records)
        /\ IF write_ok
           THEN /\ tmp' = FileOf(tmp.data \o Dumps(valid_records[done + 1])
                                          \o <<Newline>>)
                /\ UNCHANGED <<files, setting, op, raised, result, appended,
                               calls, sinceEnable, exportCalled, fault,
                               interrupts, repairs, exports, onDisk, query,
                               repairArgs, pc, valid_records, reader>>
           ELSE RepairFails

\* os.replace(tmp.name, HISTORY_PATH): the log's name now names the
\* temporary file's content, in one step
Replace(old, new) == FileOf(new.data)

RepairReplace(replace_ok) ==
    /\ pc = "write"
    /\ Len(Lines(tmp.data)) = Len(valid_records)
    /\ IF replace_ok
       THEN /\ log' = Replace(log, tmp)
            /\ tmp' = NoFile
            /\ pc' = "idle"
            /\ op' = "repair_history"
            /\ raised' = "none"
            /\ result' = Len(valid_records)
            /\ UNCHANGED <<bak, csv, db, setting, appended, calls,
                           sinceEnable, exportCalled, fault, interrupts,
                           repairs, exports, onDisk, query, repairArgs,
                           valid_records, reader>>
       ELSE RepairFails

(***************************************************************************)
(* load_history and audit_history_file in another process, in two steps:   *)
(* open(HISTORY_PATH, "r"), then the reading of the opened file.  The file *)
(* opened is the one the log's name names at that moment; no step writes   *)
(* into a file a reader holds (repair writes its temporary file, and       *)
(* os.replace leaves the old file to its readers).                         *)
(***************************************************************************)
\* a reader that finds the repair's file under the log's name
OpenReadInPlace(l, t) == IF t.exists THEN t ELSE l
OpenRead(l, t) == l

Readers == {"load_history", "audit_history_file"}

ReaderOpen(by) ==
    LET f == OpenRead(log, tmp)
    IN  /\ ~reader.exists
        /\ IF f.exists
           THEN /\ reader' = Handle(f, by)
                /\ UNCHANGED <<op, raised, result>>
           ELSE /\ op' = by
                /\ raised' = "none"
                /\ result' = IF by = "load_history" THEN load_history(f)
                              ELSE audit_history_file(f)
                /\ UNCHANGED reader
        /\ UNCHANGED <<files, setting, appended, calls, sinceEnable,
                       exportCalled, fault, interrupts, repairs, exports,
                       onDisk, query, repairArgs, pc, tmp, valid_records>>

ReaderRead ==
    /\ reader.exists
    /\ op' = reader.by
    /\ raised' = "none"
    /\ result' = IF reader.by = "load_history"
                  THEN load_history(FileOf(reader.data))
                  ELSE audit_history_file(FileOf(reader.data))
    /\ reader' = Closed
    /\ UNCHANGED <<files, setting, appended, calls, sinceEnable,
                   exportCalled, fault, interrupts, repairs, exports,
                   onDisk, query, repairArgs, pc, tmp, valid_records>>

(***************************************************************************)
(* An append_run whose write is cut short: the first cut characters of the *)
(* line reach the file, the newline does not.  Either the process dies     *)
(* (a new process starts with the module globals at their defaults), or    *)
(* the write raises OSError and the process goes on.                       *)
(***************************************************************************)
Cuts(line) == {1, Len(line) \div 2, Len(line) - 1}

AppendRunInterrupted(run, cut, dies) ==
    LET line == RecordLine(Clock(calls + 1), run)
    IN  /\ calls < MaxRuns
        /\ Len(Lines(log.data)) < MaxLines
        /\ interrupts < MaxInterrupts
        /\ cut \in 1..(Len(line) - 1)
        /\ log' = OpenAppend(log, SubSeq(line, 1, cut))
        /\ op' = "append_run"
        /\ raised' = IF dies THEN "killed" ELSE "OSError"
        /\ result' = <<>>
        /\ AUTO_EXPORT_N' = IF dies THEN Disabled ELSE AUTO_EXPORT_N
        /\ AUTO_EXPORT_CSV_PATH' =
               IF dies THEN DefaultCsvPath ELSE AUTO_EXPORT_CSV_PATH
        /\ sinceEnable' = IF dies THEN 0 ELSE sinceEnable + 1
        /\ exportCalled' = FALSE
        /\ fault' = "none"
        /\ calls' = calls + 1
        /\ interrupts' = interrupts + 1
        /\ UNCHANGED <<bak, csv, db, appended, repairs, exports, onDisk, query,
                       repairing>>

(***************************************************************************)
(* Log files found on disk at start-up: up to MaxInitLines lines, each a   *)
(* record line, a record line between spaces, a record line after a log    *)
(* prefix, a record line after an unfinished record, a line with a "{" but *)
(* no JSON in it, a line with neither, or a blank line; the last line with *)
(* or without its newline.  Each record has its own timestamp.             *)
(***************************************************************************)
OldRun == Run(JObj(<<Item("lr", JNum("1"))>>), JObj(<<>>), JNull, JNull)
OldLine(ts) == Dumps(safe_map(MakeRecord(ts, OldRun)))
Sample(kind, ts, line) == [kind |-> kind, ts |-> ts, line |-> line]
Samples ==
    { Sample("valid", "Ta", OldLine("Ta")),
      Sample("padded", "Tb", <<Space>> \o OldLine("Tb") \o <<Space>>),
      Sample("prefixed", "Tc", <<"INFO", Space>> \o OldLine("Tc")),
      Sample("nested", "Td",
             <<LBrace, Quote, "timestamp", Quote, Colon, Space>> \o OldLine("Td")),
      Sample("brace", "", <<"INFO", Space, LBrace, "oops">>),
      Sample("text", "", <<"oops">>),
      Sample("blank", "", <<Space>>) }

RECURSIVE Join(_, _)
Join(ls, i) ==
    IF i > Len(ls) THEN <<>>
    ELSE ls[i].line \o <<Newline>> \o Join(ls, i + 1)

InitDirty ==
    /\ \/ log = NoFile /\ onDisk = <<>>
       \/ \E n \in 0..MaxInitLines :
            \E ls \in [1..n -> Samples], newline \in BOOLEAN :
                LET data == Join(ls, 1)
                IN  /\ newline \/ n > 0
                    /\ log = FileOf(IF newline THEN data
                                    ELSE SubSeq(data, 1, Len(data) - 1))
                    /\ onDisk = [i \in 1..n |->
                                    [kind |-> ls[i].kind, ts |-> ls[i].ts]]
    /\ InitRest

(***************************************************************************)
(* Specifications.                                                         *)
(*   Spec           a log that starts empty or missing: append_run with    *)
(*                  the auto-export setting and its faults, load_history.  *)
(*   SpecOps        every operation but repair_history.                    *)
(*   SpecLoad       appends of different runs and the read-side queries.   *)
(*   SpecInterrupt  appends cut short between completed appends.           *)
(*   SpecDirty      load, audit and repair of the log files of InitDirty.  *)
(*   SpecCodec      appends of runs with unserializable values, and loads. *)
(*   SpecFind       appends of different runs and find_runs_by_param.      *)
(*   SpecAtomic     repair_history step by step, its faults included,      *)
(*                  beside the reads of another process, on the log files  *)
(*                  of InitDirty.                                          *)
(*   SpecSetting    the operations that could touch the auto-export        *)
(*                  setting, repair_history included.                      *)
(*   SpecRace       repair_history step by step beside the append_run      *)
(*                  calls of another process.                              *)
(*   SpecBackup     repairs, with and without backup, between appends and  *)
(*                  appends cut short.                                     *)
(***************************************************************************)
AppendStep == \E run \in Runs, f \in Faults : AppendRun(run, f)
AppendPlainStep == \E f \in Faults : AppendRun(PlainRun, f)
InterruptedStep ==
    \E dies \in BOOLEAN :
        \E cut \in Cuts(RecordLine(Clock(calls + 1), PlainRun)) :
            AppendRunInterrupted(PlainRun, cut, dies)
PrintStep == \E n \in {2} : PrintRecentRuns(n)
FindStep ==
    \E name \in ParamNames, value \in ParamValues : FindRunsByParam(name, value)
EnableStep ==
    \E n \in EnableArgs, path \in PathArgs : EnableAutoExportCsv(n, path)
RepairStep ==
    \E backup \in BOOLEAN, copy_ok \in BOOLEAN : RepairHistory(backup, copy_ok)

Next ==
    \/ AppendPlainStep
    \/ EnableStep
    \/ DisableAutoExportCsv
    \/ LoadHistory
Spec == Init /\ [][Next]_vars

NextOps ==
    \/ AppendRun(PlainRun, "none")
    \/ LoadHistory
    \/ AuditHistoryFile
    \/ GetLastRun
    \/ PrintRecentRuns(2)
    \/ ExportToCsv(DefaultCsvPath)
    \/ ExportToSqlite
    \/ FindRunsByParam("lr", JNum("1"))
    \/ EnableAutoExportCsv(2, NoPath)
    \/ DisableAutoExportCsv
SpecOps == Init /\ [][NextOps]_vars

NextLoad ==
    \/ AppendStep
    \/ LoadHistory
    \/ GetLastRun
    \/ AuditHistoryFile
    \/ PrintStep
SpecLoad == Init /\ [][NextLoad]_vars

NextCodec ==
    \/ \E run \in OpaqueRuns : AppendRun(run, "none")
    \/ LoadHistory
SpecCodec == Init /\ [][NextCodec]_vars

NextFind ==
    \/ AppendStep
    \/ FindStep
SpecFind == Init /\ [][NextFind]_vars

NextInterrupt ==
    \/ AppendPlainStep
    \/ InterruptedStep
    \/ LoadHistory
    \/ RepairStep
SpecInterrupt == Init /\ [][NextInterrupt]_vars

NextDirty ==
    \/ LoadHistory
    \/ AuditHistoryFile
    \/ RepairStep
SpecDirty == InitDirty /\ [][NextDirty]_vars

NextAtomic ==
    \/ RepairBegin(TRUE, TRUE)
    \/ RepairRead
    \/ \E write_ok \in BOOLEAN : RepairWrite(write_ok)
    \/ \E replace_ok \in BOOLEAN : RepairReplace(replace_ok)
    \/ \E by \in Readers : ReaderOpen(by)
    \/ ReaderRead
SpecAtomic == InitDirty /\ [][NextAtomic]_vars

\* the read-side calls are taken before any export or repair
Unused == exports = 0 /\ repairs = 0
NextSetting ==
    \/ AppendRun(PlainRun, "none")
    \/ Unused /\ LoadHistory
    \/ Unused /\ AuditHistoryFile
    \/ Unused /\ FindRunsByParam("lr", JNum("1"))
    \/ RepairHistory(FALSE, TRUE)
    \/ ExportToCsv(DefaultCsvPath)
    \/ ExportToSqlite
    \/ \E n \in {0, 2} : EnableAutoExportCsv(n, "runs.csv")
    \/ DisableAutoExportCsv
SpecSetting == Init /\ [][NextSetting]_vars

NextRace ==
    \/ AppendRun(PlainRun, "none")
    \/ RepairBegin(TRUE, TRUE)
    \/ RepairRead
    \/ RepairWrite(TRUE)
    \/ RepairReplace(TRUE)
SpecRace == Init /\ [][NextRace]_vars

NextBackup ==
    \/ AppendRun(PlainRun, "none")
    \/ AppendRunInterrupted(PlainRun, 1, FALSE)
    \/ RepairStep
SpecBackup == Init /\ [][NextBackup]_vars

(***************************************************************************)
(* Helpers of the properties.                                              *)
(***************************************************************************)
\* the run a loaded record carries
RunOf(r) ==
    Run(Get(r, "params"), Get(r, "metrics"), Get(r, "history"),
        Get(r, "model_paths"))
\* the record a completed append_run wrote, as a reader should get it back
Written(a) == safe_map(MakeRecord(a.ts, a.run))
IsPrefix(s, u) == Len(s) <= Len(u) /\ SubSeq(u, 1, Len(s)) = s
RECURSIVE IsSubseq(_, _)
IsSubseq(s, u) ==
    IF s = <<>> THEN TRUE
    ELSE IF u = <<>> THEN FALSE
    ELSE IF Head(s) = Head(u) THEN IsSubseq(Tail(s), Tail(u))
    ELSE IsSubseq(s, Tail(u))
\* the start-up lines of the given kinds, as records, in file order
OnDiskRecords(kinds) ==
    LET keep == SelectSeq(onDisk, LAMBDA l : l.kind \in kinds)
    IN  [i \in 1..Len(keep) |-> Written([ts |-> keep[i].ts, run |-> OldRun])]

\* the number of start-up lines of the given kinds
Count(kinds) == Len(SelectSeq(onDisk, LAMBDA l : l.kind \in kinds))
Report(total, valid, malformed) ==
    [total_lines |-> total, valid_json |-> valid, malformed_lines |-> malformed]
Loadable == {"valid", "padded"}
Recoverable == {"valid", "padded", "prefixed", "nested"}

(***************************************************************************)
(* C1, as claimed: after n completed append_run calls on a log that        *)
(* started empty or missing, load_history returns n records carrying the   *)
(* params, metrics, history and model_paths of the appended runs, in       *)
(* append order.                                                           *)
(***************************************************************************)
C1_LoadReturnsAppended ==
    op = "load_history" =>
        /\ Len(result) = Len(appended)
        /\ \A i \in 1..Len(result) :
               IsDict(result[i]) /\ RunOf(result[i]) = appended[i].run
(***************************************************************************)
(* C1, amended: load_history returns n records, in append order, the i-th  *)
(* being the i-th appended record as append_run normalised it: with the    *)
(* string form in place of each value json.dumps cannot serialize, and     *)
(* with the params, metrics, history and model_paths of the run itself     *)
(* when all its values are serializable.                                   *)
(***************************************************************************)
C1_LoadReturnsNormalised ==
    op = "load_history" =>
        /\ Len(result) = Len(appended)
        /\ \A i \in 1..Len(result) :
               /\ result[i] = Written(appended[i])
               /\ Serializable(MakeRecord(appended[i].ts, appended[i].run))
                      => RunOf(result[i]) = appended[i].run
C1_Witness ==
    /\ op = "load_history"
    /\ Len(result) = 3
    /\ appended[1].run = NestedRun
    /\ appended[2].run = OpaqueRun
    /\ appended[3].run = PlainRun

(***************************************************************************)
(* C2: load_history returns the record of every append_run that completed, *)
(* whether it ran before or after an interrupted append.                   *)
(***************************************************************************)
C2_CompletedAppendsAreLoaded ==
    op = "load_history" =>
        \A i \in 1..Len(appended) :
            \E j \in 1..Len(result) : result[j] = Written(appended[i])

(***************************************************************************)
(* C3: on a file with well-formed, malformed and blank lines load_history  *)
(* returns exactly the records of the well-formed lines, in file order,    *)
(* and does not raise; on a missing file it returns the empty list.        *)
(***************************************************************************)
C3_LoadSkipsMalformed ==
    op = "load_history" /\ repairs = 0 =>
        /\ raised = "none"
        /\ result = OnDiskRecords({"valid", "padded"})
        /\ ~log.exists => result = <<>>
C3_Witness ==
    /\ op = "load_history"
    /\ repairs = 0
    /\ Len(onDisk) = 2
    /\ onDisk[1].kind = "nested"
    /\ onDisk[2].kind = "padded"
    /\ Len(result) = 1

(***************************************************************************)
(* C4: without repair, the log before an operation is a prefix of the log  *)
(* after it: append_run adds exactly one line at the end, every other      *)
(* operation leaves the log file as it was.                                *)
(***************************************************************************)
C4_AppendOnly ==
    [][IF op' = "append_run"
       THEN /\ log'.exists
            /\ IsPrefix(log.data, log'.data)
            /\ Find(log'.data, Newline, Len(log.data) + 1) = Len(log'.data)
            /\ Len(Lines(log'.data)) = Len(Lines(log.data)) + 1
       ELSE log' = log]_vars
C4_Witness ==
    /\ op = "export_to_csv"
    /\ AUTO_EXPORT_N = 2
    /\ Len(Lines(log.data)) = 3
    /\ csv[DefaultCsvPath].exists

(***************************************************************************)
(* C5: on a log that started empty, with auto-export enabled at interval   *)
(* n and no fault in the export step, the k-th completed append calls      *)
(* export_to_csv exactly when k is a multiple of n, and the exported file  *)
(* then holds k data rows.                                                 *)
(***************************************************************************)
C5_ExportEveryNthRecord ==
    op = "append_run" /\ AUTO_EXPORT_N > 0 /\ fault = "none" =>
        /\ exportCalled <=> Len(appended) % AUTO_EXPORT_N = 0
        /\ exportCalled =>
               /\ csv[AUTO_EXPORT_CSV_PATH].exists
               /\ Len(csv[AUTO_EXPORT_CSV_PATH].data) = Len(appended)
C5_Witness ==
    /\ op = "append_run"
    /\ AUTO_EXPORT_N = 2
    /\ fault = "none"
    /\ Len(appended) = 2
    /\ exportCalled
    /\ Len(csv[AUTO_EXPORT_CSV_PATH].data) = 2

(***************************************************************************)
(* C6, as claimed: after enable_auto_export_csv(n) the exports are         *)
(* triggered by exactly the n-th, 2n-th, ... append_run since enabling.    *)
(***************************************************************************)
C6_ExportEveryNthSinceEnable ==
    op = "append_run" /\ AUTO_EXPORT_N > 0 /\ fault = "none" =>
        (exportCalled <=> sinceEnable % AUTO_EXPORT_N = 0)
(***************************************************************************)
(* C6, amended: an append_run made while auto-export is enabled at n calls *)
(* export_to_csv exactly when the number of records load_history returns   *)
(* right after the append is a multiple of n, however many appends were    *)
(* made since enabling (unless the recount itself fails).                  *)
(***************************************************************************)
C6_ExportOnTotalCount ==
    op = "append_run" /\ raised = "none" /\ AUTO_EXPORT_N > 0
                      /\ fault # "recount" =>
        (exportCalled <=> Len(load_history(log)) % AUTO_EXPORT_N = 0)
C6_Witness ==
    /\ op = "append_run"
    /\ AUTO_EXPORT_N = 2
    /\ sinceEnable = 1
    /\ exportCalled
    /\ Len(load_history(log)) = 2

(***************************************************************************)
(* C7: enable_auto_export_csv(n, path) with n <= 0 raises ValueError and   *)
(* leaves the interval and the target path as they were.                   *)
(***************************************************************************)
C7_InvalidEnableChangesNothing ==
    [][op' = "enable_auto_export_csv" /\ result'[1] <= 0 =>
           /\ raised' = "ValueError"
           /\ AUTO_EXPORT_N' = AUTO_EXPORT_N
           /\ AUTO_EXPORT_CSV_PATH' = AUTO_EXPORT_CSV_PATH]_vars
C7_Witness ==
    /\ op = "enable_auto_export_csv"
    /\ result = <<0, "runs.csv">>
    /\ raised = "ValueError"
    /\ AUTO_EXPORT_N = 2
    /\ AUTO_EXPORT_CSV_PATH = DefaultCsvPath

(***************************************************************************)
(* C8: a failing recount or export inside append_run does not abort it:    *)
(* the call returns normally, the new record is the last line of the log,  *)
(* and the log and the setting are what a successful export leaves.        *)
(***************************************************************************)
C8_ExportFailureSwallowed ==
    [][op' = "append_run" /\ fault' # "none" =>
           LET a == appended'[Len(appended')]
           IN  /\ raised' = "none"
               /\ Len(appended') = Len(appended) + 1
               /\ log'.data = log.data \o RecordLine(a.ts, a.run)
               /\ AUTO_EXPORT_N' = AUTO_EXPORT_N
               /\ AUTO_EXPORT_CSV_PATH' = AUTO_EXPORT_CSV_PATH]_vars
C8_Witness ==
    /\ op = "append_run"
    /\ fault = "export_write"
    /\ raised = "none"
    /\ Len(appended) = 2

(***************************************************************************)
(* C9: repair_history rewrites the log to one line per recovered record,   *)
(* in the original line order: the lines that parse, that parse from       *)
(* their first "{", or that parse from a later "{"; every other line and   *)
(* the blank lines are dropped; it returns the number of records written.  *)
(***************************************************************************)
C9_RepairKeepsRecoverable ==
    op = "repair_history" =>
        LET expected == OnDiskRecords({"valid", "padded", "prefixed", "nested"})
            ls == Lines(log.data)
        IN  /\ result = Len(expected)
            /\ Len(ls) = Len(expected)
            /\ \A i \in 1..Len(ls) :
                   /\ ls[i][Len(ls[i])] = Newline
                   /\ Loads(Strip(ls[i])) = Ok(expected[i], Len(ls[i]))
C9_Witness ==
    /\ op = "repair_history"
    /\ Len(onDisk) = 2
    /\ onDisk[1].kind = "brace"
    /\ onDisk[2].kind = "nested"
    /\ result = 1

(***************************************************************************)
(* C10: no operation takes a record away from what load_history returns:   *)
(* whatever it returned before an operation (repair included) it still     *)
(* returns after it, in the same relative order.                           *)
(***************************************************************************)
C10_LoadedRecordsAreKept ==
    [][IsSubseq(load_history(log), load_history(log'))]_vars

(***************************************************************************)
(* C11: a repair_history(backup=True) whose copy succeeds leaves in the    *)
(* backup file the log as it was just before that call, malformed lines    *)
(* included, at every repair of a sequence of repairs and appends; with    *)
(* backup=False the backup file is left as it was; and whether or not the  *)
(* copy succeeds the repair goes on to rewrite the log.                    *)
(***************************************************************************)
C11_BackupIsVerbatim ==
    [][op' = "repair_history" /\ log.exists =>
           /\ repairArgs'.copied => bak'.exists /\ bak'.data = log.data
           /\ ~repairArgs'.backup => bak' = bak
           /\ raised' = "none"
           /\ result' = Len(repair_records(log))
           /\ log' = FileOf(WriteRecords(repair_records(log), 1))]_vars
C11_Witness ==
    /\ op = "repair_history"
    /\ repairs = 2
    /\ repairArgs.copied
    /\ Len(Lines(bak.data)) = 2
    /\ Len(load_history(bak)) = 1
    /\ Len(Lines(log.data)) = 1
    /\ Len(appended) = 1

(***************************************************************************)
(* C12: a load_history or audit_history_file that runs beside a            *)
(* repair_history, at any interleaving of its steps, gets the whole log as *)
(* it was before the repair or the whole repaired log, never a partly      *)
(* written one; and the log changes only at a replace that succeeds, to    *)
(* the complete repaired content, so a repair that fails leaves it alone.  *)
(***************************************************************************)
C12_ReadersSeeWholeLog ==
    /\ [](op = "load_history" =>
              result \in {OnDiskRecords(Loadable), OnDiskRecords(Recoverable)})
    /\ [](op = "audit_history_file" =>
              result \in {Report(Len(onDisk),
                                 Count({"valid", "padded", "prefixed"}),
                                 Count({"nested", "brace", "text"})),
                          Report(Count(Recoverable), Count(Recoverable), 0)})
    /\ [][log' # log =>
              /\ pc = "write" /\ pc' = "idle"
              /\ op' = "repair_history" /\ raised' = "none"
              /\ log' = FileOf(WriteRecords(valid_records, 1))]_vars
C12_Witness ==
    /\ op = "load_history"
    /\ repairs = 1
    /\ pc = "idle"
    /\ bak.exists
    /\ log # bak
    /\ result = OnDiskRecords(Loadable)
    /\ result # OnDiskRecords(Recoverable)
    /\ Len(OnDiskRecords(Recoverable)) = 2

(***************************************************************************)
(* C13, as claimed: audit_history_file reports the number of lines of the  *)
(* log as total_lines and counts every line either in valid_json (it       *)
(* parses, or parses from its first "{") or in malformed_lines (any other  *)
(* line, one that parses from a later "{" only included); a missing file   *)
(* gives three zeros.                                                      *)
(***************************************************************************)
C13_AuditClassifiesEveryLine ==
    op = "audit_history_file" /\ repairs = 0 =>
        /\ result = Report(Len(onDisk),
                           Count({"valid", "padded", "prefixed"}),
                           Count({"nested", "brace", "text", "blank"}))
        /\ result.valid_json + result.malformed_lines = result.total_lines
(***************************************************************************)
(* C13, amended: as above, but a blank line is counted in total_lines      *)
(* only: it is neither valid nor malformed, so valid_json plus             *)
(* malformed_lines is the number of non-blank lines.                       *)
(***************************************************************************)
C13_AuditSkipsBlankLines ==
    op = "audit_history_file" /\ repairs = 0 =>
        /\ result = Report(Len(onDisk),
                           Count({"valid", "padded", "prefixed"}),
                           Count({"nested", "brace", "text"}))
        /\ result.valid_json + result.malformed_lines
               = result.total_lines - Count({"blank"})
        /\ ~log.exists => result = Report(0, 0, 0)
C13_Witness ==
    /\ op = "audit_history_file"
    /\ repairs = 0
    /\ Len(onDisk) = 2
    /\ onDisk[1].kind = "nested"
    /\ onDisk[2].kind = "blank"
    /\ result = Report(2, 0, 1)

\* whether the params of record r hold the key name with the value
HasParam(r, name, value) ==
    LET params == Get(r, "params")
    IN  /\ IsDict(params)
        /\ \E i \in 1..Len(params.p) :
               params.p[i].key = <<name>> /\ params.p[i].val = value

(***************************************************************************)
(* C14: find_runs_by_param(name, value) returns, in log order, exactly the *)
(* records whose params hold the key name with a value equal to value; a   *)
(* record whose params lack the key (or that has no params) is not         *)
(* returned, whatever value is, null included.                             *)
(***************************************************************************)
C14_FindReturnsExactMatches ==
    op = "find_runs_by_param" /\ raised = "none" =>
        result = SelectSeq(load_history(log),
                           LAMBDA r : HasParam(r, query[1], query[2]))

(***************************************************************************)
(* C15: the auto-export setting starts disabled, with the default target   *)
(* path; only enable_auto_export_csv and disable_auto_export_csv change    *)
(* it; disable clears the interval and leaves the target path as last set; *)
(* and an append_run made while it is disabled calls no export and leaves  *)
(* the CSV files as they were.                                             *)
(***************************************************************************)
C15_SettingChangesByEnableDisableOnly ==
    /\ [](op = "init" => AUTO_EXPORT_N = Disabled)
    /\ [](op = "append_run" /\ AUTO_EXPORT_N = Disabled => ~exportCalled)
    /\ [][/\ op' \notin {"enable_auto_export_csv", "disable_auto_export_csv"}
             => /\ AUTO_EXPORT_N' = AUTO_EXPORT_N
                /\ AUTO_EXPORT_CSV_PATH' = AUTO_EXPORT_CSV_PATH
          /\ op' = "disable_auto_export_csv"
             => /\ AUTO_EXPORT_N' = Disabled
                /\ AUTO_EXPORT_CSV_PATH' = AUTO_EXPORT_CSV_PATH
          /\ op' = "append_run" /\ AUTO_EXPORT_N = Disabled => csv' = csv]_vars
C15_Witness ==
    /\ op = "append_run"
    /\ AUTO_EXPORT_N = Disabled
    /\ AUTO_EXPORT_CSV_PATH = "runs.csv"
    /\ csv["runs.csv"].exists
    /\ Len(csv["runs.csv"].data) = 2
    /\ Len(appended) = 3
    /\ repairs = 1
    /\ ~exportCalled

\* what a reader gets back for each run with unserializable values
Reloaded(run) ==
    CASE run = OpaqueRun ->
            Run(JObj(<<Item("lr", JStr(<<"np1">>))>>),
                JObj(<<Item("mae", JNum("1"))>>), JNull, JNull)
      [] run = DeepOpaqueRun ->
            Run(JObj(<<Item("layers",
                            JArr(<<JStr(<<"np2">>),
                                   JObj(<<Item("act", JStr(<<"fn">>))>>),
                                   JNum("1")>>))>>),
                JObj(<<>>), JNull, JNull)
      [] OTHER -> run

(***************************************************************************)
(* C16: an append_run whose params hold values json.dumps cannot           *)
(* serialize, at any depth inside mappings and lists, does not raise and   *)
(* adds one line to the log; load_history then returns the record with the *)
(* string form in place of each such value, and every other value, every   *)
(* key and the order of the lists as they were.                            *)
(***************************************************************************)
C16_UnserializableBecomesString ==
    /\ op = "append_run" =>
           raised = "none" /\ Len(Lines(log.data)) = calls
    /\ op = "load_history" =>
           /\ Len(result) = calls
           /\ \A i \in 1..Len(result) :
                  /\ IsDict(result[i])
                  /\ Get(result[i], "timestamp") = JStr(<<Clock(i)>>)
                  /\ RunOf(result[i]) = Reloaded(appended[i].run)
C16_Witness ==
    /\ op = "load_history"
    /\ Len(result) = 3
    /\ appended[1].run = DeepOpaqueRun
    /\ appended[2].run = PlainRun
    /\ appended[3].run = OpaqueRun

(***************************************************************************)
(* C17: right after a repair_history that returned k, audit_history_file   *)
(* would report total_lines = valid_json = k and malformed_lines = 0,      *)
(* load_history would return k records, and a second repair_history run    *)
(* at once returns k again and leaves the log as it is.                    *)
(***************************************************************************)
C17_RepairIsIdempotent ==
    /\ [](op = "repair_history" =>
              /\ audit_history_file(log) = Report(result, result, 0)
              /\ Len(load_history(log)) = result
              /\ load_history(log) = repair_records(log))
    /\ [][op = "repair_history" /\ op' = "repair_history" =>
              result' = result /\ log' = log]_vars
C17_Witness ==
    /\ op = "repair_history"
    /\ repairs = 2
    /\ result = 2
    /\ Len(onDisk) = 2
    /\ onDisk[1].kind = "nested"
    /\ onDisk[2].kind = "prefixed"

(***************************************************************************)
(* C18: when append_run calls of one process interleave with a             *)
(* repair_history of another, the record of every append that completed    *)
(* is in the log once the repair has finished.                             *)
(***************************************************************************)
C18_AppendsSurviveConcurrentRepair ==
    pc = "idle" =>
        \A i \in 1..Len(appended) :
            \E j \in 1..Len(load_history(log)) :
                load_history(log)[j] = Written(appended[i])

====
